---- MODULE Spec2Model ----
(***************************************************************************)
(* Model of deep_rl/metrics.py: the metric aggregators (Mean,              *)
(* AccumulatedMetric, LastValue) and MetricsContext with its log and       *)
(* collect operations, the latter including the all_reduce collective      *)
(* that several processes enter together.                                  *)
(*                                                                         *)
(* Numbers.  Observations are integers.  to_tensor casts to float32, which *)
(* F32 models (exact below 2^24, rounded to a 24 bit mantissa above).      *)
(* Quotients (cumsum / samples, values / world_size) are exact rationals   *)
(* [num, den] in lowest terms; the rounding of a quotient is not modelled. *)
(***************************************************************************)
EXTENDS Integers, Sequences, FiniteSets, TLC

VARIABLES metrics, pc, frame, ret, world

vars == <<metrics, pc, frame, ret, world>>

-----------------------------------------------------------------------------
(* Bounds of the model *)

NProcs == 2
MaxUpdates == 2
MaxLen == 2

Procs == 1..NProcs

-----------------------------------------------------------------------------
(* Numbers *)

Abs(x) == IF x < 0 THEN -x ELSE x

RECURSIVE GCD(_, _)
GCD(a, b) == IF b = 0 THEN a ELSE GCD(b, a % b)

RECURSIVE SumSeq(_)
SumSeq(s) == IF s = <<>> THEN 0 ELSE Head(s) + SumSeq(Tail(s))

RECURSIVE ProdSeq(_)
ProdSeq(s) == IF s = <<>> THEN 1 ELSE Head(s) * ProdSeq(Tail(s))

\* the exact rational n / d (d # 0), in lowest terms with a positive denominator
Rat(n, d) ==
    LET g == GCD(Abs(n), Abs(d))
        s == IF d < 0 THEN -1 ELSE 1
    IN  [num |-> (s * n) \div g, den |-> (s * d) \div g]

Num(x) == Rat(x, 1)

RatAdd(a, b) == Rat(a.num * b.den + b.num * a.den, a.den * b.den)

RatDivInt(a, k) == Rat(a.num, a.den * k)

\* round-to-nearest-even of a natural to a 24 bit mantissa
RECURSIVE RoundNat(_, _)
RoundNat(a, step) ==
    IF a < 16777216 * step
    THEN LET q == a \div step
             r == a % step
         IN  IF 2 * r > step \/ (2 * r = step /\ q % 2 = 1)
             THEN (q + 1) * step
             ELSE q * step
    ELSE RoundNat(a, 2 * step)

F32(x) == IF x < 0 THEN -RoundNat(-x, 1) ELSE RoundNat(x, 1)

-----------------------------------------------------------------------------
(* Python values handed to the aggregators, and tensors *)

NoneValue == [tag |-> "None", xs |-> <<>>]
Scalar(x) == [tag |-> "scalar", xs |-> <<x>>]
Array(xs) == [tag |-> "array", xs |-> xs]

NoneTensor == [isNone |-> TRUE, shape |-> <<>>, data |-> <<>>]

ScalarTensor(x) == [isNone |-> FALSE, shape |-> <<>>, data |-> <<F32(x)>>]

\* to_tensor: None passes through; a number becomes a 0-dim float32 tensor, a
\* list a 1-dim one
to_tensor(value) ==
    IF value.tag = "None" THEN NoneTensor
    ELSE [isNone |-> FALSE,
          shape  |-> IF value.tag = "scalar" THEN <<>> ELSE <<Len(value.xs)>>,
          data   |-> [i \in 1..Len(value.xs) |-> F32(value.xs[i])]]

\* t.cpu().item() succeeds on a tensor of exactly one element
HasItem(t) == ~t.isNone /\ Len(t.data) = 1

Item(t) == t.data[1]

-----------------------------------------------------------------------------
(* Aggregators.  One record shape for the three classes; seen is a history  *)
(* field (the update_state calls since the last reset, each with whether it *)
(* raised) that no operation reads.                                         *)

BlankMetric ==
    [kind |-> "Metric", accumulate |-> "None", is_distributed |-> FALSE,
     cumsum |-> 0, samples |-> 0, value |-> 0, seen |-> <<>>]

MeanResetStates(m) == [m EXCEPT !.cumsum = 0, !.samples = 0, !.seen = <<>>]

AccumulatedResetStates(m) == [m EXCEPT !.value = 0, !.seen = <<>>]

ResetStates(m) ==
    IF m.kind = "Mean" THEN MeanResetStates(m) ELSE AccumulatedResetStates(m)

\* Metric.__init__
MetricInit(m, is_distributed) ==
    ResetStates([m EXCEPT !.is_distributed = is_distributed])

Mean(is_distributed) ==
    MetricInit([BlankMetric EXCEPT !.kind = "Mean"], is_distributed)

\* mutant: accumulate_fn stored whether or not the class has its own
AccumulatedInitStoresFn(kind, accumulate_fn, is_distributed) ==
    MetricInit([BlankMetric EXCEPT !.kind = kind, !.accumulate = accumulate_fn],
               is_distributed)

\* AccumulatedMetric.__init__: accumulate_fn is stored only when the class
\* defines no _accumulate of its own
AccumulatedInit(kind, accumulate_fn, is_distributed) ==
    LET own == IF kind = "LastValue" THEN "last" ELSE accumulate_fn
    IN  MetricInit([BlankMetric EXCEPT !.kind = kind, !.accumulate = own],
                   is_distributed)

AccumulatedMetric(accumulate_fn, is_distributed) ==
    AccumulatedInit("AccumulatedMetric", accumulate_fn, is_distributed)

LastValue(accumulate_fn, is_distributed) ==
    AccumulatedInit("LastValue", accumulate_fn, is_distributed)

\* the outcome of a call: the aggregator afterwards and whether it raised
Done(m) == [m |-> m, raised |-> FALSE]
Raised(m) == [m |-> m, raised |-> TRUE]

Remember(m, value, weight, raised) ==
    [m EXCEPT !.seen = Append(@, [value |-> value, weight |-> weight,
                                  raised |-> raised])]

\* mutant: a batch counted as one sample instead of its element count
MeanUpdateStateBatchAsOne(m, value, weight) ==
    LET v0 == to_tensor(value)
        w0 == to_tensor(weight)
        batch == w0.isNone /\ ~v0.isNone
        w1 == IF batch THEN ScalarTensor(1) ELSE w0
        v1 == IF batch THEN ScalarTensor(SumSeq(v0.data)) ELSE v0
        w2 == IF w1.isNone THEN ScalarTensor(1) ELSE w1
    IN  IF ~HasItem(w2) THEN Raised(Remember(m, value, weight, TRUE))
        ELSE LET m1 == [m EXCEPT !.samples = @ + Item(w2)]
             IN  IF ~HasItem(v1) THEN Raised(Remember(m1, value, weight, TRUE))
                 ELSE Done(Remember([m1 EXCEPT !.cumsum = @ + Item(v1)],
                                    value, weight, FALSE))

MeanUpdateState(m, value, weight) ==
    LET v0 == to_tensor(value)
        w0 == to_tensor(weight)
        batch == w0.isNone /\ ~v0.isNone
        w1 == IF batch THEN ScalarTensor(ProdSeq(v0.shape)) ELSE w0
        v1 == IF batch THEN ScalarTensor(SumSeq(v0.data)) ELSE v0
        w2 == IF w1.isNone THEN ScalarTensor(1) ELSE w1
    IN  IF ~HasItem(w2) THEN Raised(Remember(m, value, weight, TRUE))
        ELSE LET m1 == [m EXCEPT !.samples = @ + Item(w2)]
             IN  IF ~HasItem(v1) THEN Raised(Remember(m1, value, weight, TRUE))
                 ELSE Done(Remember([m1 EXCEPT !.cumsum = @ + Item(v1)],
                                    value, weight, FALSE))

MeanReport(m, full_stats) ==
    IF full_stats
    THEN [tuple |-> TRUE, v |-> <<Num(m.cumsum), Num(m.samples)>>]
    ELSE IF m.samples = 0
         THEN [tuple |-> FALSE, v |-> <<Num(0)>>]
         ELSE [tuple |-> FALSE, v |-> <<Rat(m.cumsum, m.samples)>>]

Max2(a, b) == IF b > a THEN b ELSE a

\* self._accumulate(acc, value), for the functions the model hands out
Accumulate(fn, acc, value) ==
    CASE fn = "last" -> value
      [] fn = "max"  -> Max2(acc, value)
      [] OTHER       -> acc

\* mutant: without accumulate_fn an update keeps the value and does not raise
AccumulatedUpdateStateSkipsNone(m, value) ==
    LET t == to_tensor(value)
    IN  IF ~HasItem(t)
        THEN Raised(Remember(m, value, NoneValue, TRUE))
        ELSE Done(Remember([m EXCEPT !.value = Accumulate(m.accumulate, @, Item(t))],
                           value, NoneValue, FALSE))

AccumulatedUpdateState(m, value) ==
    LET t == to_tensor(value)
    IN  IF ~HasItem(t) \/ m.accumulate = "None"
        THEN Raised(Remember(m, value, NoneValue, TRUE))
        ELSE Done(Remember([m EXCEPT !.value = Accumulate(m.accumulate, @, Item(t))],
                           value, NoneValue, FALSE))

AccumulatedReport(m, full_stats) == [tuple |-> FALSE, v |-> <<Num(m.value)>>]

Report(m, full_stats) ==
    IF m.kind = "Mean" THEN MeanReport(m, full_stats)
    ELSE AccumulatedReport(m, full_stats)

-----------------------------------------------------------------------------
(* Calling an aggregator.  A call is [args, kwargs]: the positional         *)
(* arguments and the keyword arguments (a function from parameter names).   *)

NoKwargs == [k \in {} |-> NoneValue]

Call(args, kwargs) == [args |-> args, kwargs |-> kwargs]

NoCall == Call(<<>>, NoKwargs)

Params(m) == IF m.kind = "Mean" THEN <<"value", "weight">> ELSE <<"value">>

\* Python's binding of (*args, **kwargs) to update_state's parameters
Binds(params, args, kwargs) ==
    /\ Len(args) <= Len(params)
    /\ \A k \in DOMAIN kwargs : \E i \in 1..Len(params) : params[i] = k
    /\ \A i \in 1..Len(args) : params[i] \notin DOMAIN kwargs
    /\ Len(args) >= 1 \/ "value" \in DOMAIN kwargs

Bound(params, args, kwargs, i) ==
    IF i <= Len(args) THEN args[i]
    ELSE IF i <= Len(params) /\ params[i] \in DOMAIN kwargs THEN kwargs[params[i]]
    ELSE NoneValue

UpdateState(m, args, kwargs) ==
    IF ~Binds(Params(m), args, kwargs) THEN Raised(m)
    ELSE IF m.kind = "Mean"
         THEN MeanUpdateState(m, Bound(Params(m), args, kwargs, 1),
                              Bound(Params(m), args, kwargs, 2))
         ELSE AccumulatedUpdateState(m, Bound(Params(m), args, kwargs, 1))

\* Metric.__call__: with positional arguments an update, otherwise a report
\* (whose value the caller of log drops)
MetricCall(m, args, kwargs) ==
    IF Len(args) > 0 THEN UpdateState(m, args, kwargs) ELSE Done(m)

-----------------------------------------------------------------------------
(* MetricsContext: self.metrics is an OrderedDict, here the sequence of its *)
(* items [name, m] in insertion order.                                      *)

Entry(name, m) == [name |-> name, m |-> m]

Keys(ms) == {ms[i].name : i \in 1..Len(ms)}

IndexOf(ms, name) == CHOOSE i \in 1..Len(ms) : ms[i].name = name

At(ms, name) == ms[IndexOf(ms, name)].m

\* OrderedDict assignment: in place for a present key, appended for a new one
Put(ms, name, m) ==
    IF name \in Keys(ms) THEN [ms EXCEPT ![IndexOf(ms, name)].m = m]
    ELSE Append(ms, Entry(name, m))

\* mutant: a delete that resets the entry and leaves it in place
RemoveResets(ms, name) == [ms EXCEPT ![IndexOf(ms, name)].m = ResetStates(@)]

Remove(ms, name) ==
    LET i == IndexOf(ms, name)
    IN  SubSeq(ms, 1, i - 1) \o SubSeq(ms, i + 1, Len(ms))

\* mutant: a lookup that stores a new Mean whether or not the key is present
GetItemAlwaysStores(ms, idx) == Put(ms, idx, Mean(FALSE))

\* __getitem__: the context after the lookup (the looked-up item is At of it)
GetItem(ms, idx) ==
    IF idx \notin Keys(ms) THEN Put(ms, idx, Mean(FALSE)) ELSE ms

\* mutant: a membership test that reads the keys and stores nothing
MappingContainsReadsKeys(ms, key) == [ms |-> ms, answer |-> key \in Keys(ms)]

\* the inherited Mapping.__contains__: true unless self[key] raises KeyError,
\* which __getitem__ never does
MappingContains(ms, key) == [ms |-> GetItem(ms, key), answer |-> TRUE]

\* the inherited Mapping.get: self[key], the default only on KeyError
MappingGet(ms, key) ==
    [ms |-> GetItem(ms, key), item |-> At(GetItem(ms, key), key)]

\* mutant: the reports taken after the resets
ValsAfterReset(ms, full_stats) ==
    [k \in Keys(ms) |-> Report(ResetStates(At(ms, k)), full_stats)]

\* collect, line 83: every report, keyed by name
Vals(ms, full_stats) ==
    [k \in Keys(ms) |-> Report(At(ms, k), full_stats)]

\* collect, lines 84-94: what the loop gathers from the flagged aggregators
RECURSIVE DistributedVals(_, _)
DistributedVals(ms, vals) ==
    IF ms = <<>> THEN <<>>
    ELSE LET e == Head(ms)
         IN  (IF e.m.is_distributed /\ vals[e.name].tuple
              THEN vals[e.name].v ELSE <<>>)
             \o DistributedVals(Tail(ms), vals)

RECURSIVE DistributedLens(_, _)
DistributedLens(ms, vals) ==
    IF ms = <<>> THEN <<>>
    ELSE LET e == Head(ms)
         IN  (IF e.m.is_distributed
              THEN IF vals[e.name].tuple THEN <<Len(vals[e.name].v)>> ELSE <<1>>
              ELSE <<>>)
             \o DistributedLens(Tail(ms), vals)

RECURSIVE DistributedKeys(_)
DistributedKeys(ms) ==
    IF ms = <<>> THEN <<>>
    ELSE (IF Head(ms).m.is_distributed THEN <<Head(ms).name>> ELSE <<>>)
         \o DistributedKeys(Tail(ms))

\* mutant: collect puts a new default Mean under every name
ResetAllRebuilds(ms) == [i \in 1..Len(ms) |-> Entry(ms[i].name, Mean(FALSE))]

\* mutant: the reset inside the test of the flag
ResetAllFlaggedOnly(ms) ==
    [i \in 1..Len(ms) |->
        IF ms[i].m.is_distributed THEN Entry(ms[i].name, ResetStates(ms[i].m))
        ELSE ms[i]]

\* collect, line 95: every aggregator is reset
ResetAll(ms) == [i \in 1..Len(ms) |-> Entry(ms[i].name, ResetStates(ms[i].m))]

Min2(a, b) == IF a < b THEN a ELSE b

\* collect, lines 101-107: values[offset] raises IndexError past the end, a
\* slice is cut short instead
RECURSIVE Scatter(_, _, _, _, _, _)
Scatter(vals, values, keys, lens, i, offset) ==
    IF i > Len(keys) THEN [vals |-> vals, raised |-> FALSE]
    ELSE IF lens[i] = 1
         THEN IF offset + 1 > Len(values) THEN [vals |-> vals, raised |-> TRUE]
              ELSE Scatter([vals EXCEPT ![keys[i]] =
                                [tuple |-> FALSE, v |-> <<values[offset + 1]>>]],
                           values, keys, lens, i + 1, offset + lens[i])
         ELSE Scatter([vals EXCEPT ![keys[i]] =
                           [tuple |-> TRUE,
                            v |-> SubSeq(values, Min2(offset, Len(values)) + 1,
                                         Min2(offset + lens[i], Len(values)))]],
                      values, keys, lens, i + 1, offset + lens[i])

-----------------------------------------------------------------------------
(* State.                                                                   *)
(*   metrics[p]  the context of process p                                   *)
(*   pc[p]       "idle", or inside collect: "reduce" (blocked in            *)
(*               all_reduce), "scatter" (all_reduce has returned)           *)
(*   frame[p]    the locals of p's collect call while it is in progress;    *)
(*               gathered is a history field, every process's reports when  *)
(*               the reduction ran                                          *)
(*   ret[p]      the last finished operation of p and how it ended          *)
(*   world       the processes of the initialised process group ({} when    *)
(*               torch.distributed is not initialised)                      *)

NoVals == [k \in {} |-> 0]

NoGathered == [q \in {} |-> NoVals]

NoFrame ==
    [vals |-> NoVals, values |-> <<>>, keys |-> <<>>, lens |-> <<>>,
     full_stats |-> FALSE, gathered |-> NoGathered]

Ret(op, outcome, name, call, vals, is_distributed, full_stats) ==
    [op |-> op, outcome |-> outcome, name |-> name, call |-> call, vals |-> vals,
     is_distributed |-> is_distributed, full_stats |-> full_stats,
     item |-> BlankMetric, answer |-> FALSE]

\* the result of an operation that hands back an aggregator (item) or a truth
\* value (answer)
RetItem(op, name, item, answer) ==
    [Ret(op, "returned", name, NoCall, NoVals, FALSE, FALSE)
        EXCEPT !.item = item, !.answer = answer]

NoRet == Ret("none", "returned", "", NoCall, NoVals, FALSE, FALSE)

Outcome(raised) == IF raised THEN "raised" ELSE "returned"

\* MetricsContext(**kwargs), each process with its own context
InitWith(contexts, worlds) ==
    /\ metrics \in [Procs -> contexts]
    /\ pc = [p \in Procs |-> "idle"]
    /\ frame = [p \in Procs |-> NoFrame]
    /\ ret = [p \in Procs |-> NoRet]
    /\ world \in worlds

\* the update_state calls a context has made since its last collect (a bound
\* of the model: log is enabled below MaxUpdates of them)
RECURSIVE Updates(_)
Updates(ms) ==
    IF ms = <<>> THEN 0 ELSE Len(Head(ms).m.seen) + Updates(Tail(ms))

\* log(name, *args, **kwargs)
Log(p, name, args, kwargs) ==
    /\ pc[p] = "idle"
    /\ LET ms == GetItem(metrics[p], name)
           r  == MetricCall(At(ms, name), args, kwargs)
       IN  /\ Updates(metrics[p]) < MaxUpdates
           /\ metrics' = [metrics EXCEPT ![p] = Put(ms, name, r.m)]
           /\ ret' = [ret EXCEPT ![p] =
                        Ret("log", Outcome(r.raised), name, Call(args, kwargs),
                            NoVals, FALSE, FALSE)]
    /\ UNCHANGED <<pc, frame, world>>

\* ctx[name]
Lookup(p, name) ==
    /\ pc[p] = "idle"
    /\ LET ms == GetItem(metrics[p], name)
       IN  /\ metrics' = [metrics EXCEPT ![p] = ms]
           /\ ret' = [ret EXCEPT ![p] = RetItem("getitem", name, At(ms, name), FALSE)]
    /\ UNCHANGED <<pc, frame, world>>

\* name in ctx
Contains(p, name) ==
    /\ pc[p] = "idle"
    /\ LET r == MappingContains(metrics[p], name)
       IN  /\ metrics' = [metrics EXCEPT ![p] = r.ms]
           /\ ret' = [ret EXCEPT ![p] = RetItem("contains", name, BlankMetric, r.answer)]
    /\ UNCHANGED <<pc, frame, world>>

\* ctx.get(name)
Get(p, name) ==
    /\ pc[p] = "idle"
    /\ LET r == MappingGet(metrics[p], name)
       IN  /\ metrics' = [metrics EXCEPT ![p] = r.ms]
           /\ ret' = [ret EXCEPT ![p] = RetItem("get", name, r.item, FALSE)]
    /\ UNCHANGED <<pc, frame, world>>

\* ctx[name] = value
SetItem(p, name, value) ==
    /\ pc[p] = "idle"
    /\ metrics' = [metrics EXCEPT ![p] = Put(@, name, value)]
    /\ ret' = [ret EXCEPT ![p] = RetItem("setitem", name, value, FALSE)]
    /\ UNCHANGED <<pc, frame, world>>

\* del ctx[name]: KeyError for an absent name
DelItem(p, name) ==
    /\ pc[p] = "idle"
    /\ metrics' = [metrics EXCEPT ![p] =
                     IF name \in Keys(@) THEN Remove(@, name) ELSE @]
    /\ ret' = [ret EXCEPT ![p] =
                 Ret("delitem", Outcome(name \notin Keys(metrics[p])), name,
                     NoCall, NoVals, FALSE, FALSE)]
    /\ UNCHANGED <<pc, frame, world>>

\* collect(is_distributed, full_stats), lines 83-98: report, gather, reset;
\* then return, or raise for want of a process group, or block in all_reduce
Collect(p, is_distributed, full_stats) ==
    /\ pc[p] = "idle"
    /\ LET ms   == metrics[p]
           vals == Vals(ms, full_stats)
       IN  /\ metrics' = [metrics EXCEPT ![p] = ResetAll(ms)]
           /\ IF ~is_distributed
              THEN /\ ret' = [ret EXCEPT ![p] =
                                Ret("collect", "returned", "", NoCall, vals,
                                    FALSE, full_stats)]
                   /\ UNCHANGED <<pc, frame>>
              ELSE IF p \notin world
              THEN /\ ret' = [ret EXCEPT ![p] =
                                Ret("collect", "raised", "", NoCall, NoVals,
                                    TRUE, full_stats)]
                   /\ UNCHANGED <<pc, frame>>
              ELSE /\ pc' = [pc EXCEPT ![p] = "reduce"]
                   /\ frame' = [frame EXCEPT ![p] =
                                  [vals |-> vals,
                                   values |-> DistributedVals(ms, vals),
                                   keys |-> DistributedKeys(ms),
                                   lens |-> DistributedLens(ms, vals),
                                   full_stats |-> full_stats,
                                   gathered |-> NoGathered]]
                   /\ UNCHANGED ret
    /\ UNCHANGED world

SameLength == \A p, q \in world : Len(frame[p].values) = Len(frame[q].values)

RECURSIVE SumOver(_, _)
SumOver(ps, i) ==
    IF ps = {} THEN Num(0)
    ELSE LET p == CHOOSE x \in ps : TRUE
         IN  RatAdd(frame[p].values[i], SumOver(ps \ {p}, i))

\* torch.distributed.all_reduce(values): returns in no process before every
\* process of the group has entered it, and leaves the element-wise sum in each
AllReduce ==
    /\ world # {}
    /\ \A p \in world : pc[p] = "reduce"
    /\ SameLength
    /\ pc' = [p \in Procs |-> IF p \in world THEN "scatter" ELSE pc[p]]
    /\ frame' = [p \in Procs |->
                   IF p \in world
                   THEN [frame[p] EXCEPT
                           !.values = [i \in 1..Len(frame[p].values) |->
                                         SumOver(world, i)],
                           !.gathered = [q \in world |-> frame[q].vals]]
                   ELSE frame[p]]
    /\ UNCHANGED <<metrics, ret, world>>

\* all_reduce over tensors of different sizes is undefined: the processes stay
\* blocked (no step), or the communication layer fails in each of them
AllReduceMismatch ==
    /\ world # {}
    /\ \A p \in world : pc[p] = "reduce"
    /\ ~SameLength
    /\ pc' = [p \in Procs |-> IF p \in world THEN "idle" ELSE pc[p]]
    /\ ret' = [p \in Procs |->
                 IF p \in world
                 THEN Ret("collect", "raised", "", NoCall, NoVals, TRUE,
                          frame[p].full_stats)
                 ELSE ret[p]]
    /\ frame' = [p \in Procs |-> IF p \in world THEN NoFrame ELSE frame[p]]
    /\ UNCHANGED <<metrics, world>>

WorldSize == Cardinality(world)

\* mutant: the division by the world size applied to every returned value
CollectFinishDividesAll(p) ==
    /\ pc[p] = "scatter"
    /\ LET f == frame[p]
           values == [i \in 1..Len(f.values) |-> RatDivInt(f.values[i], WorldSize)]
           r == Scatter(f.vals, values, f.keys, f.lens, 1, 0)
       IN  ret' = [ret EXCEPT ![p] =
                     Ret("collect", Outcome(r.raised), "", NoCall,
                         IF r.raised THEN NoVals
                         ELSE [k \in DOMAIN r.vals |->
                                 [r.vals[k] EXCEPT !.v =
                                    [i \in DOMAIN @ |-> RatDivInt(@[i], WorldSize + 1)]]],
                         TRUE, f.full_stats)]
    /\ pc' = [pc EXCEPT ![p] = "idle"]
    /\ frame' = [frame EXCEPT ![p] = NoFrame]
    /\ UNCHANGED <<metrics, world>>

\* collect, lines 99-108: average, scatter, return
CollectFinish(p) ==
    /\ pc[p] = "scatter"
    /\ LET f == frame[p]
           values == [i \in 1..Len(f.values) |-> RatDivInt(f.values[i], WorldSize)]
           r == Scatter(f.vals, values, f.keys, f.lens, 1, 0)
       IN  ret' = [ret EXCEPT ![p] =
                     Ret("collect", Outcome(r.raised), "", NoCall,
                         IF r.raised THEN NoVals ELSE r.vals, TRUE, f.full_stats)]
    /\ pc' = [pc EXCEPT ![p] = "idle"]
    /\ frame' = [frame EXCEPT ![p] = NoFrame]
    /\ UNCHANGED <<metrics, world>>

-----------------------------------------------------------------------------
(* Specifications.  Each draws the callers' inputs from small sets.         *)

First == CHOOSE p \in Procs : \A q \in Procs : p <= q

Names == {"loss", "reward"}

Booleans == {TRUE, FALSE}

Positional(v) == Call(<<v>>, NoKwargs)

\* Spec: one process and its context, every operation of MetricsContext
CtxValues == {Scalar(2), Scalar(4)}

CtxCalls ==
    {Positional(v) : v \in CtxValues}
    \cup {Call(<<>>, "value" :> v) : v \in CtxValues}
    \cup {Call(<<v>>, "weight" :> Scalar(2)) : v \in CtxValues}
    \cup {NoCall}

CtxMetrics ==
    {Mean(d) : d \in Booleans}
    \cup {LastValue("None", d) : d \in Booleans}
    \cup {AccumulatedMetric("max", d) : d \in Booleans}

Init == InitWith({<<>>}, {{}, {First}})

Next ==
    \/ \E name \in Names, call \in CtxCalls : Log(First, name, call.args, call.kwargs)
    \/ \E name \in Names, value \in CtxMetrics : SetItem(First, name, value)
    \/ \E name \in Names : DelItem(First, name)
    \/ \E is_distributed \in Booleans, full_stats \in Booleans :
           Collect(First, is_distributed, full_stats)
    \/ AllReduce
    \/ CollectFinish(First)

Spec == Init /\ [][Next]_vars

InitLocal == InitWith({<<>>}, {{}})

\* SpecMap: one process using its context as a mapping
NextMap ==
    \/ \E name \in Names : Lookup(First, name)
    \/ \E name \in Names : Contains(First, name)
    \/ \E name \in Names : Get(First, name)
    \/ \E name \in Names, value \in CtxMetrics : SetItem(First, name, value)
    \/ \E name \in Names : DelItem(First, name)
    \/ \E name \in Names, v \in CtxValues : Log(First, name, <<v>>, NoKwargs)
    \/ \E full_stats \in Booleans : Collect(First, FALSE, full_stats)

SpecMap == InitLocal /\ [][NextMap]_vars

\* SpecMean: one Mean under one name, with every shape of update
MeanScalars == {-3, 2, 4}

ArrayElements == {2, 4}

Arrays == UNION {[1..n -> ArrayElements] : n \in 1..MaxLen}

MeanValues ==
    {NoneValue} \cup {Scalar(x) : x \in MeanScalars} \cup {Array(xs) : xs \in Arrays}

MeanWeights == {Scalar(0), Scalar(2)}

MeanCalls ==
    {Positional(v) : v \in MeanValues}
    \cup {Call(<<v, w>>, NoKwargs) : v \in MeanValues, w \in MeanWeights}

NextMean ==
    \/ \E call \in MeanCalls : Log(First, "loss", call.args, call.kwargs)
    \/ \E full_stats \in Booleans : Collect(First, FALSE, full_stats)

SpecMean == InitLocal /\ [][NextMean]_vars

\* SpecAcc: one fold-accumulator under one name
AccValues == {Scalar(-3), Scalar(-1), Scalar(1), Scalar(5)}

AccMetrics ==
    {AccumulatedMetric(fn, d) : fn \in {"None", "max"}, d \in Booleans}
    \cup {LastValue(fn, d) : fn \in {"None", "max"}, d \in Booleans}

NextAcc ==
    \/ \E v \in AccValues : Log(First, "reward", <<v>>, NoKwargs)
    \/ \E value \in AccMetrics : SetItem(First, "reward", value)
    \/ Collect(First, FALSE, FALSE)

SpecAcc == InitLocal /\ [][NextAcc]_vars

\* SpecDist: every process of the group, each constructed with the same
\* metrics, logging and collecting together
DistValue(p) == IF p = First THEN Scalar(10) ELSE Scalar(30)

DistMetrics == {Mean(TRUE), LastValue("None", TRUE), Mean(FALSE)}

DistContexts ==
    {<<Entry("loss", a)>> : a \in DistMetrics}
    \cup {<<Entry("loss", a), Entry("reward", b)>> : a, b \in DistMetrics}

InitDist ==
    /\ InitWith(DistContexts, {Procs})
    /\ \A p, q \in Procs : metrics[p] = metrics[q]

NextDist ==
    \/ \E p \in Procs, name \in Names :
           /\ name \in Keys(metrics[p])
           /\ Log(p, name, <<DistValue(p), Scalar(2)>>, NoKwargs)
    \/ \E p \in Procs, full_stats \in Booleans : Collect(p, TRUE, full_stats)
    \/ AllReduce
    \/ AllReduceMismatch
    \/ \E p \in Procs : CollectFinish(p)

SpecDist == InitDist /\ [][NextDist]_vars

\* SpecGroup: the processes of one group holding the same context; the first
\* logs, the others have logged once under every name or not at all
Logged(ms, v) ==
    [i \in 1..Len(ms) |->
        Entry(ms[i].name, UpdateState(ms[i].m, <<v, Scalar(2)>>, NoKwargs).m)]

InitGroup ==
    /\ InitWith(DistContexts \cup {Logged(ms, DistValue(p)) :
                                       ms \in DistContexts, p \in Procs},
                {Procs})
    /\ metrics[First] \in DistContexts
    /\ \E logged \in Booleans :
           \A p \in Procs \ {First} :
               metrics[p] = IF logged THEN Logged(metrics[First], DistValue(p))
                            ELSE metrics[First]

NextGroup ==
    \/ \E name \in Names :
           /\ name \in Keys(metrics[First])
           /\ Log(First, name, <<DistValue(First), Scalar(2)>>, NoKwargs)
    \/ \E p \in Procs, full_stats \in Booleans : Collect(p, TRUE, full_stats)
    \/ AllReduce
    \/ AllReduceMismatch
    \/ \E p \in Procs : CollectFinish(p)

SpecGroup == InitGroup /\ [][NextGroup]_vars

\* SpecOrder: the processes of one group holding the same two aggregators
\* under the same names, the first process in one insertion order and every
\* other process in the opposite one
OrderContexts ==
    {<<Entry(n, a), Entry(o, b)>> : n \in Names, o \in Names, a \in DistMetrics,
                                   b \in DistMetrics}

InitOrder ==
    /\ InitWith(OrderContexts, {Procs})
    /\ \E a, b \in DistMetrics :
           \A p \in Procs :
               metrics[p] = IF p = First
                            THEN <<Entry("loss", a), Entry("reward", b)>>
                            ELSE <<Entry("reward", b), Entry("loss", a)>>

SpecOrder == InitOrder /\ [][NextDist]_vars

-----------------------------------------------------------------------------
(* Properties.  Helpers first: how a step of one process shows in the state. *)

Entries(p) == {metrics[p][i] : i \in 1..Len(metrics[p])}

\* the aggregator log(name, ...) finds, before the call
Found(p, name) ==
    IF name \in Keys(metrics[p]) THEN At(metrics[p], name) ELSE Mean(FALSE)

\* p made a step that finished a log call
LogStep(p) ==
    /\ pc[p] = "idle"
    /\ ret'[p].op = "log"
    /\ <<metrics'[p], ret'[p]>> # <<metrics[p], ret[p]>>

\* p made a step that was a whole collect(is_distributed=False, ...) call
LocalCollectStep(p) ==
    /\ pc[p] = "idle"
    /\ pc'[p] = "idle"
    /\ ret'[p].op = "collect"
    /\ ~ret'[p].is_distributed
    /\ <<metrics'[p], ret'[p]>> # <<metrics[p], ret[p]>>

\* p made a step in which collect(is_distributed=True, ...) raised at once
FailedCollectStep(p) ==
    /\ pc[p] = "idle"
    /\ pc'[p] = "idle"
    /\ ret'[p].op = "collect"
    /\ ret'[p].is_distributed
    /\ ret'[p].outcome = "raised"
    /\ <<metrics'[p], ret'[p]>> # <<metrics[p], ret[p]>>

NoneRaised(seen) == \A i \in 1..Len(seen) : ~seen[i].raised

Single(x) == [tuple |-> FALSE, v |-> <<Num(x)>>]

\* ---- C1 ------------------------------------------------------------------

\* the reports of the flagged aggregators, in insertion order
RECURSIVE FlaggedReports(_, _)
FlaggedReports(ms, vals) ==
    IF ms = <<>> THEN <<>>
    ELSE (IF Head(ms).m.is_distributed THEN vals[Head(ms).name].v ELSE <<>>)
         \o FlaggedReports(Tail(ms), vals)

\* where the i-th flagged name's report starts in that sequence (0-based)
RECURSIVE StartOf(_, _)
StartOf(f, i) ==
    IF i = 1 THEN 0 ELSE StartOf(f, i - 1) + Len(f.vals[f.keys[i - 1]].v)

Averaged(f) == [i \in 1..Len(f.values) |-> RatDivInt(f.values[i], WorldSize)]

C1_Gathered ==
    \A p \in Procs :
        pc[p] = "reduce" =>
            frame[p].values = FlaggedReports(metrics[p], frame[p].vals)

C1_Scattered ==
    \A p \in Procs :
        pc[p] = "scatter" =>
            LET f == frame[p]
                r == Scatter(f.vals, Averaged(f), f.keys, f.lens, 1, 0)
            IN  /\ ~r.raised
                /\ \A i \in 1..Len(f.keys) :
                       LET k == f.keys[i]
                           n == Len(f.vals[k].v)
                       IN  /\ r.vals[k].tuple = f.vals[k].tuple
                           /\ StartOf(f, i) + n <= Len(f.values)
                           /\ r.vals[k].v =
                                  SubSeq(Averaged(f), StartOf(f, i) + 1, StartOf(f, i) + n)

\* C1: in collect(is_distributed=True) the flat sequence handed to the
\* reduction holds the reported value(s) of every flagged aggregator in
\* insertion order (two scalars for a full-stats Mean, one for any other
\* report), and after the reduction every flagged name gets the reduced
\* element(s) at its own positions, in its original shape.
C1_FlatSequenceHoldsEveryFlaggedReport == C1_Gathered /\ C1_Scattered

\* ---- C2 ------------------------------------------------------------------

Weighted(seen) == \A i \in 1..Len(seen) : seen[i].weight.tag = "scalar"

RECURSIVE SumValueTimesWeight(_)
SumValueTimesWeight(seen) ==
    IF seen = <<>> THEN 0
    ELSE Head(seen).value.xs[1] * Head(seen).weight.xs[1]
         + SumValueTimesWeight(Tail(seen))

RECURSIVE SumWeight(_)
SumWeight(seen) ==
    IF seen = <<>> THEN 0 ELSE Head(seen).weight.xs[1] + SumWeight(Tail(seen))

\* C2: after any sequence of Mean.update_state(value_i, weight_i) calls with
\* explicit weights since the last reset, report() is
\* sum(value_i * weight_i) / sum(weight_i); with no update it is 0.
C2_ReportIsWeightedMean ==
    \A p \in Procs : \A e \in Entries(p) :
        (e.m.kind = "Mean" /\ NoneRaised(e.m.seen) /\ Weighted(e.m.seen)) =>
            IF e.m.seen = <<>> THEN MeanReport(e.m, FALSE) = Single(0)
            ELSE SumWeight(e.m.seen) # 0 =>
                     MeanReport(e.m, FALSE).v =
                         <<Rat(SumValueTimesWeight(e.m.seen), SumWeight(e.m.seen))>>

\* ---- C3 ------------------------------------------------------------------

\* C3: after any collect() call (either mode, returned or raised) every
\* aggregator of the context is in its post-reset state and reports 0.
C3_AfterCollectEveryAggregatorIsReset ==
    \A p \in Procs :
        ret[p].op = "collect" =>
            \A e \in Entries(p) :
                /\ e.m.cumsum = 0 /\ e.m.samples = 0 /\ e.m.value = 0
                /\ Report(e.m, FALSE) = Single(0)
                /\ e.m.kind # "Mean" => Report(e.m, TRUE) = Single(0)
                /\ e.m.kind = "Mean" => Report(e.m, TRUE).v = <<Num(0), Num(0)>>

C3_Witness ==
    /\ ret[First].op = "collect"
    /\ ret[First].outcome = "returned"
    /\ ret[First].is_distributed
    /\ Len(metrics[First]) = 2
    /\ \E k \in DOMAIN ret[First].vals : ret[First].vals[k].v[1] # Num(0)
    /\ \E e \in Entries(First) : e.m.kind = "LastValue"

\* ---- C4 ------------------------------------------------------------------

UnweightedScalars(seen, xs) ==
    /\ Len(seen) = Len(xs)
    /\ \A i \in 1..Len(seen) :
           /\ seen[i].value = Scalar(xs[i])
           /\ seen[i].weight = NoneValue
           /\ ~seen[i].raised

C4_Scenario(p) ==
    (LocalCollectStep(p) /\ ~ret'[p].full_stats /\ Keys(metrics[p]) = {"loss"}
     /\ At(metrics[p], "loss").kind = "Mean") =>
        /\ UnweightedScalars(At(metrics[p], "loss").seen, <<2, 4>>) =>
               ret'[p].vals["loss"] = Single(3)
        /\ At(metrics[p], "loss").seen = <<>> => ret'[p].vals["loss"] = Single(0)

\* C4: collect takes every report before any reset: what it records for each
\* name is report(full_stats) of the observations logged since the previous
\* collect, and collect(is_distributed=False) returns exactly that; unweighted
\* logs of 2.0 and 4.0 under one name give 3.0, and a collect with nothing
\* logged since the last one gives 0.
C4_ReportsBeforeResets ==
    [][\A p \in Procs :
         /\ LocalCollectStep(p) =>
                /\ ret'[p].outcome = "returned"
                /\ DOMAIN ret'[p].vals = Keys(metrics[p])
                /\ \A k \in Keys(metrics[p]) :
                       ret'[p].vals[k] = Report(At(metrics[p], k), ret'[p].full_stats)
         /\ (pc[p] = "idle" /\ pc'[p] = "reduce") =>
                /\ DOMAIN frame'[p].vals = Keys(metrics[p])
                /\ \A k \in Keys(metrics[p]) :
                       frame'[p].vals[k] =
                           Report(At(metrics[p], k), frame'[p].full_stats)
         /\ C4_Scenario(p)]_vars

C4_Witness ==
    /\ ret[First].op = "collect"
    /\ ~ret[First].is_distributed
    /\ DOMAIN ret[First].vals = {"loss"}
    /\ ret[First].vals["loss"] = Single(3)
    /\ At(metrics[First], "loss").kind = "Mean"

\* ---- C5 ------------------------------------------------------------------

\* C5: after log(name, *args, **kwargs), whatever the mix of positional and
\* keyword arguments, update_state of the aggregator under name has been
\* invoked with the given arguments: they are its latest update.
C5_LogForwardsEveryArgument ==
    \A p \in Procs :
        (ret[p].op = "log" /\ ret[p].name \in Keys(metrics[p])) =>
            LET m == At(metrics[p], ret[p].name)
                c == ret[p].call
            IN  Binds(Params(m), c.args, c.kwargs) =>
                    /\ m.seen # <<>>
                    /\ m.seen[Len(m.seen)].value = Bound(Params(m), c.args, c.kwargs, 1)
                    /\ m.seen[Len(m.seen)].weight = Bound(Params(m), c.args, c.kwargs, 2)

\* ---- C7 ------------------------------------------------------------------

\* C7: collect is all-or-nothing: when collect(is_distributed=True) raises,
\* every aggregator of the context still holds the state it had before the
\* call.
C7_FailedCollectKeepsState ==
    [][\A p \in Procs : FailedCollectStep(p) => metrics'[p] = metrics[p]]_vars

\* ---- C6 ------------------------------------------------------------------

\* the processes that entered the reduction with p reported the same names in
\* the same shapes as p did
SameReports(f) ==
    \A q \in DOMAIN f.gathered :
        /\ DOMAIN f.gathered[q] = DOMAIN f.vals
        /\ \A k \in DOMAIN f.vals : f.gathered[q][k].tuple = f.vals[k].tuple

RECURSIVE SumReports(_, _, _, _)
SumReports(f, qs, k, i) ==
    IF qs = {} THEN Num(0)
    ELSE LET q == CHOOSE x \in qs : TRUE
         IN  RatAdd(f.gathered[q][k].v[i], SumReports(f, qs \ {q}, k, i))

\* the element-wise average of the processes' local reports of k
AverageReport(f, k) ==
    [tuple |-> f.vals[k].tuple,
     v |-> [i \in 1..Len(f.vals[k].v) |->
              RatDivInt(SumReports(f, DOMAIN f.gathered, k, i),
                        Cardinality(DOMAIN f.gathered))]]

\* C6: when the processes, holding the same flagged names in the same order,
\* all call collect(is_distributed=True), none leaves the collective step
\* before all have entered it, and each returns with, for every flagged
\* metric, the element-wise average of the processes' local values.
C6_AllReceiveTheAverage ==
    [][\A p \in Procs :
         /\ (pc[p] = "reduce" /\ pc'[p] = "scatter") =>
                \A q \in world : pc[q] = "reduce"
         /\ (pc[p] = "scatter" /\ pc'[p] = "idle" /\ SameReports(frame[p])) =>
                /\ ret'[p].outcome = "returned"
                /\ \A i \in 1..Len(frame[p].keys) :
                       ret'[p].vals[frame[p].keys[i]] =
                           AverageReport(frame[p], frame[p].keys[i])]_vars

\* ---- C8 ------------------------------------------------------------------

RECURSIVE ScalarUpdates(_, _)
ScalarUpdates(m, xs) ==
    IF xs = <<>> THEN m
    ELSE ScalarUpdates(MeanUpdateState(m, Scalar(Head(xs)), NoneValue).m, Tail(xs))

Orders(n) == {f \in [1..n -> 1..n] : \A i, j \in 1..n : f[i] = f[j] => i = j}

\* the step is log(name, array) with no weight, on a Mean
ArrayLogStep(p) ==
    /\ LogStep(p)
    /\ ret'[p].call.kwargs = NoKwargs
    /\ Len(ret'[p].call.args) = 1
    /\ ret'[p].call.args[1].tag = "array"
    /\ Found(p, ret'[p].name).kind = "Mean"

\* C8: from the same Mean state, one update with an unweighted array of n
\* values leaves the same cumsum, samples and report as n unweighted scalar
\* updates with its elements, applied in any order.
C8_BatchEqualsScalarUpdates ==
    [][\A p \in Procs :
         ArrayLogStep(p) =>
             LET xs == ret'[p].call.args[1].xs
                 m0 == Found(p, ret'[p].name)
                 m1 == At(metrics'[p], ret'[p].name)
             IN  \A f \in Orders(Len(xs)) :
                     LET m2 == ScalarUpdates(m0, [i \in 1..Len(xs) |-> xs[f[i]]])
                     IN  /\ ret'[p].outcome = "returned"
                         /\ m1.cumsum = m2.cumsum
                         /\ m1.samples = m2.samples
                         /\ \A full_stats \in Booleans :
                                MeanReport(m1, full_stats) = MeanReport(m2, full_stats)]_vars

C8_Witness ==
    /\ ret[First].op = "log"
    /\ ret[First].outcome = "returned"
    /\ Len(ret[First].call.args) = 1
    /\ ret[First].call.args[1].tag = "array"
    /\ Len(ret[First].call.args[1].xs) >= 2
    /\ ret[First].call.args[1].xs[1] # ret[First].call.args[1].xs[2]
    /\ Len(At(metrics[First], "loss").seen) >= 2
    /\ At(metrics[First], "loss").samples >= 3

\* ---- C9 ------------------------------------------------------------------

RECURSIVE MaxOf(_)
MaxOf(seen) ==
    IF Len(seen) = 1 THEN Head(seen).value.xs[1]
    ELSE Max2(Head(seen).value.xs[1], MaxOf(Tail(seen)))

\* C9: for an AccumulatedMetric built with accumulate_fn = max, after a reset
\* and any non-empty sequence of updates, of any sign, report() is the maximum
\* of the values supplied since the reset.
C9_ReportIsRunningMaximum ==
    \A p \in Procs : \A e \in Entries(p) :
        (e.m.kind = "AccumulatedMetric" /\ e.m.accumulate = "max"
         /\ e.m.seen # <<>> /\ NoneRaised(e.m.seen)) =>
            AccumulatedReport(e.m, FALSE) = Single(MaxOf(e.m.seen))

\* ---- C10 -----------------------------------------------------------------

LastSeen(m) == m.seen[Len(m.seen)].value.xs[1]

Updated(m) == m.seen # <<>> /\ NoneRaised(m.seen)

C10_ReportsLast ==
    \A p \in Procs : \A e \in Entries(p) :
        (e.m.kind = "LastValue" /\ Updated(e.m)) =>
            \A full_stats \in Booleans : Report(e.m, full_stats) = Single(LastSeen(e.m))

\* C10: a LastValue, whatever accumulate_fn its constructor was given, reports
\* after any non-empty sequence of updates the value supplied last; a context
\* entry that is a LastValue is collected as the value logged last (logged 1
\* and then 5, as 5).
C10_LastValueReportsLatest ==
    [][/\ C10_ReportsLast'
       /\ \A p \in Procs : \A e \in Entries(p) :
              (LocalCollectStep(p) /\ e.m.kind = "LastValue" /\ Updated(e.m)) =>
                  ret'[p].vals[e.name] = Single(LastSeen(e.m))]_vars

C10_Witness ==
    /\ ret[First].op = "collect"
    /\ DOMAIN ret[First].vals = {"reward"}
    /\ ret[First].vals["reward"] = Single(5)
    /\ At(metrics[First], "reward").kind = "LastValue"

\* ---- C11 -----------------------------------------------------------------

Completed(seen) == SelectSeq(seen, LAMBDA u : ~u.raised)

\* the weight an update contributes: the explicit one, else the element count
\* of an array, else 1
ContributedWeight(u) ==
    IF u.weight.tag = "scalar" THEN u.weight.xs[1]
    ELSE IF u.value.tag = "array" THEN Len(u.value.xs) ELSE 1

RECURSIVE SumValues(_)
SumValues(seen) ==
    IF seen = <<>> THEN 0 ELSE SumSeq(Head(seen).value.xs) + SumValues(Tail(seen))

RECURSIVE SumWeights(_)
SumWeights(seen) ==
    IF seen = <<>> THEN 0 ELSE ContributedWeight(Head(seen)) + SumWeights(Tail(seen))

\* C11: at every point between resets Mean.report(full_stats=True) is the
\* pair (sum of the values contributed since the reset, sum of the weights
\* contributed since the reset).
C11_FullStatsAreTheSums ==
    \A p \in Procs : \A e \in Entries(p) :
        e.m.kind = "Mean" =>
            MeanReport(e.m, TRUE) =
                [tuple |-> TRUE,
                 v |-> <<Num(SumValues(Completed(e.m.seen))),
                         Num(SumWeights(Completed(e.m.seen)))>>]

\* ---- C12 -----------------------------------------------------------------

\* a Mean as its constructor leaves it, written out
FreshMean ==
    [kind |-> "Mean", accumulate |-> "None", is_distributed |-> FALSE,
     cumsum |-> 0, samples |-> 0, value |-> 0, seen |-> <<>>]

\* p made a step that was the mapping operation op
MappingStep(p, op) ==
    /\ pc[p] = "idle"
    /\ ret'[p].op = op
    /\ <<metrics'[p], ret'[p]>> # <<metrics[p], ret[p]>>

\* what a lookup of name leaves in the context
AfterLookup(p, name) ==
    IF name \in Keys(metrics[p]) THEN metrics'[p] = metrics[p]
    ELSE metrics'[p] = Append(metrics[p], [name |-> name, m |-> FreshMean])

\* C12: ctx[name] never raises: for an absent name it stores a fresh
\* zero-state, non-distributed Mean under the name, last in insertion order,
\* and returns it; for a present name it returns the stored aggregator and
\* changes nothing.
C12_LookupGetsOrCreates ==
    [][\A p \in Procs :
         MappingStep(p, "getitem") =>
             /\ ret'[p].outcome = "returned"
             /\ AfterLookup(p, ret'[p].name)
             /\ ret'[p].item = IF ret'[p].name \in Keys(metrics[p])
                               THEN At(metrics[p], ret'[p].name) ELSE FreshMean]_vars

C12_Witness ==
    /\ ret[First].op = "getitem"
    /\ ret[First].item = FreshMean
    /\ Len(metrics[First]) = 2
    /\ metrics[First][2] = [name |-> ret[First].name, m |-> FreshMean]
    /\ metrics[First][1].m.kind = "LastValue"
    /\ metrics[First][1].m.seen # <<>>

\* ---- C13 -----------------------------------------------------------------

\* C13: after ctx[name] = m, log(name, ...) updates m and collect reports m's
\* value under name; after del ctx[name] the name is absent, and the next log
\* on it creates a fresh default Mean with none of the removed aggregator's
\* state, type or flag.
C13_AssignLogDelete ==
    [][\A p \in Procs :
         LET n == ret'[p].name
         IN  /\ MappingStep(p, "setitem") =>
                    /\ n \in Keys(metrics'[p])
                    /\ At(metrics'[p], n) = ret'[p].item
                    /\ \A k \in Keys(metrics[p]) \ {n} :
                           At(metrics'[p], k) = At(metrics[p], k)
             /\ (LogStep(p) /\ Len(ret'[p].call.args) > 0) =>
                    /\ n \in Keys(metrics'[p])
                    /\ At(metrics'[p], n) =
                           UpdateState(IF n \in Keys(metrics[p])
                                       THEN At(metrics[p], n) ELSE FreshMean,
                                       ret'[p].call.args, ret'[p].call.kwargs).m
                    /\ n \notin Keys(metrics[p]) =>
                           /\ At(metrics'[p], n).kind = "Mean"
                           /\ ~At(metrics'[p], n).is_distributed
                           /\ Len(At(metrics'[p], n).seen) = 1
             /\ LocalCollectStep(p) =>
                    \A k \in Keys(metrics[p]) :
                        ret'[p].vals[k] = Report(At(metrics[p], k), ret'[p].full_stats)
             /\ (MappingStep(p, "delitem") /\ ret'[p].outcome = "returned") =>
                    /\ n \in Keys(metrics[p])
                    /\ Keys(metrics'[p]) = Keys(metrics[p]) \ {n}
                    /\ \A k \in Keys(metrics'[p]) :
                           At(metrics'[p], k) = At(metrics[p], k)]_vars

C13_Witness ==
    /\ ret[First].op = "delitem"
    /\ ret[First].outcome = "returned"
    /\ ret[First].name \notin Keys(metrics[First])
    /\ Len(metrics[First]) = 1
    /\ metrics[First][1].m.seen # <<>>

\* ---- C14 -----------------------------------------------------------------

\* C14: an AccumulatedMetric built without accumulate_fn raises on every
\* update_state call, the first included, and a failed update leaves its
\* accumulated value as it was.
C14_UnconfiguredUpdateRaises ==
    [][\A p \in Procs :
         (LogStep(p) /\ Len(ret'[p].call.args) > 0
          /\ Found(p, ret'[p].name).kind = "AccumulatedMetric"
          /\ Found(p, ret'[p].name).accumulate = "None") =>
             /\ ret'[p].outcome = "raised"
             /\ At(metrics'[p], ret'[p].name).value = Found(p, ret'[p].name).value
             /\ At(metrics'[p], ret'[p].name).value = 0]_vars

C14_Witness ==
    /\ ret[First].op = "log"
    /\ ret[First].outcome = "raised"
    /\ "reward" \in Keys(metrics[First])
    /\ At(metrics[First], "reward").kind = "AccumulatedMetric"
    /\ At(metrics[First], "reward").accumulate = "None"
    /\ Len(At(metrics[First], "reward").seen) = 2

\* ---- C16 -----------------------------------------------------------------

\* C16: Mean.update_state is all-or-nothing: when an update raises, neither
\* cumsum nor samples has changed.
C16_FailedUpdateChangesNothing ==
    [][\A p \in Procs :
         (LogStep(p) /\ ret'[p].outcome = "raised"
          /\ Found(p, ret'[p].name).kind = "Mean") =>
             /\ At(metrics'[p], ret'[p].name).cumsum = Found(p, ret'[p].name).cumsum
             /\ At(metrics'[p], ret'[p].name).samples = Found(p, ret'[p].name).samples]_vars

\* ---- C17 -----------------------------------------------------------------

\* the entries of a context without their accumulated state
Shape(ms) ==
    [i \in 1..Len(ms) |->
        [name |-> ms[i].name, kind |-> ms[i].m.kind,
         accumulate |-> ms[i].m.accumulate,
         is_distributed |-> ms[i].m.is_distributed]]

\* p made a step inside a collect call
CollectStep(p) ==
    LocalCollectStep(p) \/ FailedCollectStep(p) \/ pc'[p] # pc[p]

\* p made the step in which a collect call returned
CollectReturnStep(p) ==
    /\ LocalCollectStep(p) \/ (pc[p] = "scatter" /\ pc'[p] = "idle")
    /\ ret'[p].outcome = "returned"

\* C17: collect never adds, removes, reorders or replaces entries: afterwards
\* the context holds the same names in the same order, bound to the same
\* aggregators with the same flags, and the returned mapping has exactly those
\* names as keys.
C17_CollectKeepsEntries ==
    [][\A p \in Procs :
         /\ CollectStep(p) => Shape(metrics'[p]) = Shape(metrics[p])
         /\ CollectReturnStep(p) => DOMAIN ret'[p].vals = Keys(metrics[p])]_vars

C17_Witness ==
    /\ ret[First].op = "collect"
    /\ ret[First].outcome = "returned"
    /\ ret[First].is_distributed
    /\ Len(metrics[First]) = 2
    /\ metrics[First][1].m.kind = "LastValue"
    /\ metrics[First][2].m.is_distributed
    /\ DOMAIN ret[First].vals = Names

\* ---- C19 -----------------------------------------------------------------

\* C19: a membership test or a get on an absent name inserts a fresh Mean
\* under it; the membership test answers true for every name, the length grows
\* by one, and collect, which keeps every name, reports the name from then on.
C19_MembershipTestInserts ==
    [][\A p \in Procs :
         /\ MappingStep(p, "contains") =>
                /\ ret'[p].answer
                /\ AfterLookup(p, ret'[p].name)
                /\ ret'[p].name \notin Keys(metrics[p]) =>
                       Len(metrics'[p]) = Len(metrics[p]) + 1
         /\ MappingStep(p, "get") =>
                /\ AfterLookup(p, ret'[p].name)
                /\ ret'[p].item = At(metrics'[p], ret'[p].name)
                /\ ret'[p].name \notin Keys(metrics[p]) =>
                       /\ ret'[p].item = FreshMean
                       /\ Len(metrics'[p]) = Len(metrics[p]) + 1
         /\ LocalCollectStep(p) =>
                /\ Keys(metrics'[p]) = Keys(metrics[p])
                /\ DOMAIN ret'[p].vals = Keys(metrics[p])]_vars

C19_Witness ==
    /\ ret[First].op = "contains"
    /\ ret[First].answer
    /\ Len(metrics[First]) = 2
    /\ metrics[First][2] = [name |-> ret[First].name, m |-> FreshMean]
    /\ metrics[First][1].m.seen # <<>>

\* ---- C15 -----------------------------------------------------------------

\* C15: in collect(is_distributed=True) the value returned for every
\* aggregator whose is_distributed flag is false is the value it reported
\* locally, whatever the other processes hold and wherever the flagged
\* aggregators stand in insertion order.
C15_UnflaggedStayLocal ==
    [][\A p \in Procs :
         /\ (pc[p] = "idle" /\ pc'[p] = "reduce") =>
                \A k \in Keys(metrics[p]) :
                    frame'[p].vals[k] = Report(At(metrics[p], k), frame'[p].full_stats)
         /\ (pc[p] = "scatter" /\ pc'[p] = "idle" /\ ret'[p].outcome = "returned") =>
                /\ DOMAIN ret'[p].vals = Keys(metrics[p])
                /\ \A k \in Keys(metrics[p]) :
                       ~At(metrics[p], k).is_distributed =>
                           ret'[p].vals[k] = frame[p].vals[k]]_vars

C15_Witness ==
    /\ ret[First].op = "collect"
    /\ ret[First].outcome = "returned"
    /\ ret[First].is_distributed
    /\ Len(metrics[First]) = 2
    /\ metrics[First][1].m.is_distributed
    /\ ~metrics[First][2].m.is_distributed
    /\ ret[First].vals[metrics[First][2].name].v # <<Num(0)>>
    /\ ret[First].vals[metrics[First][1].name].v # <<Num(0), Num(0)>>

\* ---- C18 -----------------------------------------------------------------

\* the flat sequence of process q: its flagged reports in its insertion order
FlatOf(f, q) == FlaggedReports(metrics[q], f.gathered[q])

SameFlatLength(f) ==
    \A q, r \in DOMAIN f.gathered : Len(FlatOf(f, q)) = Len(FlatOf(f, r))

\* some process of the group holds its flagged names in another order than p
OtherOrder(p) ==
    \E q \in world : DistributedKeys(metrics[q]) # DistributedKeys(metrics[p])

RECURSIVE SumFlat(_, _, _)
SumFlat(f, qs, i) ==
    IF qs = {} THEN Num(0)
    ELSE LET q == CHOOSE x \in qs : TRUE
         IN  RatAdd(FlatOf(f, q)[i], SumFlat(f, qs \ {q}, i))

\* C18: when the processes call collect(is_distributed=True) holding their
\* flagged metrics in different insertion orders, with flat sequences of the
\* same length, no process detects an error: every call completes, and each
\* flagged name receives the average of the values at its own positions in
\* the processes' flat sequences.
C18_MisalignedAveragesUndetected ==
    [][\A p \in Procs :
         (pc[p] = "scatter" /\ pc'[p] = "idle" /\ OtherOrder(p)
          /\ SameFlatLength(frame[p])) =>
             /\ ret'[p].outcome = "returned"
             /\ \A i \in 1..Len(frame[p].keys) :
                    LET f == frame[p]
                        k == f.keys[i]
                    IN  ret'[p].vals[k] =
                            [tuple |-> f.vals[k].tuple,
                             v |-> [j \in 1..Len(f.vals[k].v) |->
                                      RatDivInt(SumFlat(f, DOMAIN f.gathered,
                                                        StartOf(f, i) + j),
                                                WorldSize)]]]_vars

====
